---- MODULE Spec2Model ----
(***************************************************************************)
(* A model of the DS3232 real-time-clock driver (src/src/RTC_DS3232.cpp).  *)
(*                                                                         *)
(* The chip is a file of 256 byte registers behind an I2C transport.  Each *)
(* driver method is one action: it reads and writes the register file      *)
(* through the transport and leaves its return value in ret.  The driver   *)
(* keeps no state of its own besides the transport handle.                 *)
(***************************************************************************)
EXTENDS Integers, Sequences, FiniteSets, TLC

VARIABLES
    regs,     \* the chip's register file, address -> byte
    pre,      \* the register file as it was when the last operation was called
    call,     \* the last operation called and its arguments
    ret,      \* what the last operation returned
    wlog,     \* the write transactions the last operation issued, in order
    set,      \* <<t>> once adjust(t) was the last write to the time registers
    lastSqw   \* the mode of the latest writeSqwPinMode call, -1 before any

vars == <<regs, pre, call, ret, wlog, set, lastSqw>>

(***************************************************************************)
(* Register map.                                                           *)
(***************************************************************************)
DS3232_TIME == 0
DS3232_ALARM1 == 7
DS3232_ALARM2 == 11
DS3232_CONTROL == 14
DS3232_STATUSREG == 15
DS3232_TEMPERATUREREG == 17
DS3232_NVRAM == 20

Byte == 0..255
Addr == 0..255

(***************************************************************************)
(* C's operators on uint8_t values.                                        *)
(***************************************************************************)
Pow2(i) == 2 ^ i

Bit(b, i) == (b \div Pow2(i)) % 2

BitAnd(a, b) ==
    (a % 2) * (b % 2)
    + 2 * ((a \div 2) % 2) * ((b \div 2) % 2)
    + 4 * ((a \div 4) % 2) * ((b \div 4) % 2)
    + 8 * ((a \div 8) % 2) * ((b \div 8) % 2)
    + 16 * ((a \div 16) % 2) * ((b \div 16) % 2)
    + 32 * ((a \div 32) % 2) * ((b \div 32) % 2)
    + 64 * ((a \div 64) % 2) * ((b \div 64) % 2)
    + 128 * ((a \div 128) % 2) * ((b \div 128) % 2)

\* a | b == a + b - (a & b)
BitOr(a, b) == a + b - BitAnd(a, b)

\* a & ~m, kept to eight bits
BitClear(a, m) == a - BitAnd(a, m)

Shl(a, n) == (a * Pow2(n)) % 256

Shr(a, n) == a \div Pow2(n)

(***************************************************************************)
(* Helpers of the library the driver is built on (RTClib.h / RTClib.cpp    *)
(* and the I2C transport); they are not part of RTC_DS3232.cpp.            *)
(***************************************************************************)
\* packed BCD of a binary number 0..99
bin2bcd(n) == (((n \div 10) * 16) + (n % 10)) % 256

bcd2bin(b) == (Shr(b, 4) * 10) + BitAnd(b, 15)

\* The wall-clock time value.
DateTime(y, mo, d, hh, mm, ss) ==
    [year |-> y, month |-> mo, day |-> d, hour |-> hh, minute |-> mm, second |-> ss]

daysInMonth == <<31, 28, 31, 30, 31, 30, 31, 31, 30, 31, 30, 31>>

RECURSIVE daysBefore(_)
daysBefore(m) == IF m <= 1 THEN 0 ELSE daysInMonth[m - 1] + daysBefore(m - 1)

\* days since 2000-01-01, for y = year - 2000
date2days(y, m, d) ==
    d + daysBefore(m) + (IF m > 2 /\ y % 4 = 0 THEN 1 ELSE 0)
      + 365 * y + ((y + 3) \div 4) - 1

\* 1 = Sunday .. 7 = Saturday, derived from the date; 2000-01-01 was a Saturday
dayOfTheWeek(dt) == ((date2days(dt.year - 2000, dt.month, dt.day) + 6) % 7) + 1

\* the time value's day of the week as the chip's 1..7 register value
dowToDS3232(d) == <<1, 2, 3, 4, 5, 6, 7>>[d]

\* The chip stores bytes from register a on; its address pointer counts up and
\* wraps at 0xFF.
RECURSIVE store(_, _, _)
store(r, a, bytes) ==
    IF bytes = <<>> THEN r
    ELSE store([r EXCEPT ![a] = Head(bytes)], (a + 1) % 256, Tail(bytes))

\* One bus write: buffer[1] is the register address, the rest the bytes to
\* store from there on.  A failed transaction stores nothing.
i2cWrite(r, buffer, ok) ==
    IF ok THEN store(r, Head(buffer), Tail(buffer)) ELSE r

\* One bus write-then-read: n consecutive registers from address a.
i2cRead(r, a, n) == [i \in 1..n |-> r[(a + i - 1) % 256]]

read_register(r, reg) == i2cRead(r, reg, 1)[1]

write_register(r, reg, val, ok) == i2cWrite(r, <<reg, val>>, ok)

\* an entry of wlog: the buffer sent and whether the transport accepted it
Tx(buffer, ok) == [buf |-> buffer, ok |-> ok]

\* the transport accepts every transaction
AllOk == [i \in 1..2 |-> TRUE]

(***************************************************************************)
(* The driver's operations.  Done(...) is the state an operation leaves:   *)
(* the register file r, the call record c, the return value v, the write   *)
(* transactions w.                                                         *)
(***************************************************************************)
Done(r, c, v, w) ==
    /\ regs' = r
    /\ pre' = regs
    /\ call' = c
    /\ ret' = v
    /\ wlog' = w

Call(op, arg) == [op |-> op, arg |-> arg]

\* no argument, or no return value (void)
None == <<>>

\* whether a write transaction w reaches one of the seven time registers
TouchesTime(w) ==
    \E i \in 1..Len(w) :
        /\ w[i].ok
        /\ \E k \in 0..(Len(w[i].buf) - 2) : (w[i].buf[1] + k) % 256 < DS3232_ALARM1

lostPower ==
    /\ Done(regs, Call("lostPower", None),
            Shr(read_register(regs, DS3232_STATUSREG), 7) # 0, <<>>)
    /\ UNCHANGED <<set, lastSqw>>

\* adjustBuffer with the year stored in binary, not BCD
adjustBuffer_rawYear(dt) ==
    <<DS3232_TIME,
      bin2bcd(dt.second),
      bin2bcd(dt.minute),
      bin2bcd(dt.hour),
      bin2bcd(dowToDS3232(dayOfTheWeek(dt))),
      bin2bcd(dt.day),
      bin2bcd(dt.month),
      dt.year - 2000>>

adjustBuffer(dt) ==
    <<DS3232_TIME,
      bin2bcd(dt.second),
      bin2bcd(dt.minute),
      bin2bcd(dt.hour),
      bin2bcd(dowToDS3232(dayOfTheWeek(dt))),
      bin2bcd(dt.day),
      bin2bcd(dt.month),
      bin2bcd(dt.year - 2000)>>

adjust(dt, ok) ==
    LET buffer == adjustBuffer(dt)
        r1 == i2cWrite(regs, buffer, ok[1])
        statreg == BitClear(read_register(r1, DS3232_STATUSREG), 128)
        r2 == write_register(r1, DS3232_STATUSREG, statreg, ok[2])
    IN  /\ Done(r2, Call("adjust", dt), None,
                <<Tx(buffer, ok[1]), Tx(<<DS3232_STATUSREG, statreg>>, ok[2])>>)
        /\ set' = IF ok[1] THEN <<dt>> ELSE set
        /\ UNCHANGED lastSqw

\* nowDecode masking bit 7 of the minutes byte instead of the month byte
nowDecode_maskMinute(buffer) ==
    DateTime(bcd2bin(buffer[7]) + 2000, bcd2bin(buffer[6]),
             bcd2bin(buffer[5]), bcd2bin(buffer[3]), bcd2bin(BitAnd(buffer[2], 127)),
             bcd2bin(BitAnd(buffer[1], 127)))

nowDecode(buffer) ==
    DateTime(bcd2bin(buffer[7]) + 2000, bcd2bin(BitAnd(buffer[6], 127)),
             bcd2bin(buffer[5]), bcd2bin(buffer[3]), bcd2bin(buffer[2]),
             bcd2bin(BitAnd(buffer[1], 127)))

now ==
    /\ Done(regs, Call("now", None), nowDecode(i2cRead(regs, DS3232_TIME, 7)), <<>>)
    /\ UNCHANGED <<set, lastSqw>>

\* the "off" member of Ds3232SqwPinMode
DS3232_OFF == 28

readSqwPinMode ==
    LET mode == BitAnd(read_register(regs, DS3232_CONTROL), 28)
    IN  /\ Done(regs, Call("readSqwPinMode", None),
                IF BitAnd(mode, 4) # 0 THEN DS3232_OFF ELSE mode, <<>>)
        /\ UNCHANGED <<set, lastSqw>>

\* writeSqwPinMode that clears INTCN but leaves the frequency bits
writeSqwPinMode_keepFreq(mode) ==
    LET ctrl == BitClear(read_register(regs, DS3232_CONTROL), 4)
        val == BitOr(ctrl, mode) % 256
    IN  /\ Done(write_register(regs, DS3232_CONTROL, val, TRUE),
                Call("writeSqwPinMode", mode), None,
                <<Tx(<<DS3232_CONTROL, val>>, TRUE)>>)
        /\ lastSqw' = mode
        /\ UNCHANGED set

writeSqwPinMode(mode) ==
    LET ctrl == BitClear(BitClear(read_register(regs, DS3232_CONTROL), 4), 24)
        val == BitOr(ctrl, mode) % 256
    IN  /\ Done(write_register(regs, DS3232_CONTROL, val, TRUE),
                Call("writeSqwPinMode", mode), None,
                <<Tx(<<DS3232_CONTROL, val>>, TRUE)>>)
        /\ lastSqw' = mode
        /\ UNCHANGED set

\* the temperature in quarters of a degree C
getTemperature ==
    LET buffer == i2cRead(regs, DS3232_TEMPERATUREREG, 2)
    IN  /\ Done(regs, Call("getTemperature", None),
                4 * buffer[1] + Shr(buffer[2], 6), <<>>)
        /\ UNCHANGED <<set, lastSqw>>

\* alarm1Buffer with A1M2 shifted one place short, to bit 6
alarm1Buffer_shift(dt, alarm_mode) ==
    LET A1M1 == Shl(BitAnd(alarm_mode, 1), 7)
        A1M2 == Shl(BitAnd(alarm_mode, 2), 5)
        A1M3 == Shl(BitAnd(alarm_mode, 4), 5)
        A1M4 == Shl(BitAnd(alarm_mode, 8), 4)
        DY_DT == Shl(BitAnd(alarm_mode, 16), 2)
        day == IF DY_DT # 0 THEN dowToDS3232(dayOfTheWeek(dt)) ELSE dt.day
    IN  <<DS3232_ALARM1,
          BitOr(bin2bcd(dt.second), A1M1),
          BitOr(bin2bcd(dt.minute), A1M2),
          BitOr(bin2bcd(dt.hour), A1M3),
          BitOr(BitOr(bin2bcd(day), A1M4), DY_DT)>>

alarm1Buffer(dt, alarm_mode) ==
    LET A1M1 == Shl(BitAnd(alarm_mode, 1), 7)
        A1M2 == Shl(BitAnd(alarm_mode, 2), 6)
        A1M3 == Shl(BitAnd(alarm_mode, 4), 5)
        A1M4 == Shl(BitAnd(alarm_mode, 8), 4)
        DY_DT == Shl(BitAnd(alarm_mode, 16), 2)
        day == IF DY_DT # 0 THEN dowToDS3232(dayOfTheWeek(dt)) ELSE dt.day
    IN  <<DS3232_ALARM1,
          BitOr(bin2bcd(dt.second), A1M1),
          BitOr(bin2bcd(dt.minute), A1M2),
          BitOr(bin2bcd(dt.hour), A1M3),
          BitOr(BitOr(bin2bcd(day), A1M4), DY_DT)>>

\* setAlarm1 with the guard on control bit 2 inverted
setAlarm1_inverted(dt, alarm_mode, ok) ==
    LET ctrl == read_register(regs, DS3232_CONTROL)
        buffer == alarm1Buffer(dt, alarm_mode)
        r1 == i2cWrite(regs, buffer, ok[1])
        r2 == write_register(r1, DS3232_CONTROL, BitOr(ctrl, 1), ok[2])
        c == Call("setAlarm1", <<dt, alarm_mode>>)
    IN  /\ IF BitAnd(ctrl, 4) # 0
           THEN Done(regs, c, FALSE, <<>>)
           ELSE Done(r2, c, TRUE,
                     <<Tx(buffer, ok[1]), Tx(<<DS3232_CONTROL, BitOr(ctrl, 1)>>, ok[2])>>)
        /\ UNCHANGED <<set, lastSqw>>

\* setAlarm1 returning whether both of its writes were accepted
setAlarm1_reports(dt, alarm_mode, ok) ==
    LET ctrl == read_register(regs, DS3232_CONTROL)
        buffer == alarm1Buffer(dt, alarm_mode)
        r1 == i2cWrite(regs, buffer, ok[1])
        r2 == write_register(r1, DS3232_CONTROL, BitOr(ctrl, 1), ok[2])
        c == Call("setAlarm1", <<dt, alarm_mode>>)
    IN  /\ IF BitAnd(ctrl, 4) = 0
           THEN Done(regs, c, FALSE, <<>>)
           ELSE Done(r2, c, ok[1] /\ ok[2],
                     <<Tx(buffer, ok[1]), Tx(<<DS3232_CONTROL, BitOr(ctrl, 1)>>, ok[2])>>)
        /\ UNCHANGED <<set, lastSqw>>

setAlarm1(dt, alarm_mode, ok) ==
    LET ctrl == read_register(regs, DS3232_CONTROL)
        buffer == alarm1Buffer(dt, alarm_mode)
        r1 == i2cWrite(regs, buffer, ok[1])
        r2 == write_register(r1, DS3232_CONTROL, BitOr(ctrl, 1), ok[2])
        c == Call("setAlarm1", <<dt, alarm_mode>>)
    IN  /\ IF BitAnd(ctrl, 4) = 0
           THEN Done(regs, c, FALSE, <<>>)
           ELSE Done(r2, c, TRUE,
                     <<Tx(buffer, ok[1]), Tx(<<DS3232_CONTROL, BitOr(ctrl, 1)>>, ok[2])>>)
        /\ UNCHANGED <<set, lastSqw>>

alarm2Buffer(dt, alarm_mode) ==
    LET A2M2 == Shl(BitAnd(alarm_mode, 1), 7)
        A2M3 == Shl(BitAnd(alarm_mode, 2), 6)
        A2M4 == Shl(BitAnd(alarm_mode, 4), 5)
        DY_DT == Shl(BitAnd(alarm_mode, 8), 3)
        day == IF DY_DT # 0 THEN dowToDS3232(dayOfTheWeek(dt)) ELSE dt.day
    IN  <<DS3232_ALARM2,
          BitOr(bin2bcd(dt.minute), A2M2),
          BitOr(bin2bcd(dt.hour), A2M3),
          BitOr(BitOr(bin2bcd(day), A2M4), DY_DT)>>

setAlarm2(dt, alarm_mode, ok) ==
    LET ctrl == read_register(regs, DS3232_CONTROL)
        buffer == alarm2Buffer(dt, alarm_mode)
        r1 == i2cWrite(regs, buffer, ok[1])
        r2 == write_register(r1, DS3232_CONTROL, BitOr(ctrl, 2), ok[2])
        c == Call("setAlarm2", <<dt, alarm_mode>>)
    IN  /\ IF BitAnd(ctrl, 4) = 0
           THEN Done(regs, c, FALSE, <<>>)
           ELSE Done(r2, c, TRUE,
                     <<Tx(buffer, ok[1]), Tx(<<DS3232_CONTROL, BitOr(ctrl, 2)>>, ok[2])>>)
        /\ UNCHANGED <<set, lastSqw>>

\* read reg, change it with f, write it back: the shape of every bit toggle
Rmw(op, arg, reg, val, ok) ==
    /\ Done(write_register(regs, reg, val, ok[1]), Call(op, arg), None,
            <<Tx(<<reg, val>>, ok[1])>>)
    /\ UNCHANGED <<set, lastSqw>>

\* disableAlarm clearing bit alarm_num instead of bit alarm_num - 1
disableAlarm_offByOne(alarm_num) ==
    Rmw("disableAlarm", alarm_num, DS3232_CONTROL,
        BitClear(read_register(regs, DS3232_CONTROL), Shl(1, alarm_num)), AllOk)

disableAlarm(alarm_num) ==
    Rmw("disableAlarm", alarm_num, DS3232_CONTROL,
        BitClear(read_register(regs, DS3232_CONTROL), Shl(1, alarm_num - 1)), AllOk)

clearAlarm(alarm_num) ==
    Rmw("clearAlarm", alarm_num, DS3232_STATUSREG,
        BitClear(read_register(regs, DS3232_STATUSREG), Shl(1, alarm_num - 1)), AllOk)

alarmFired(alarm_num) ==
    /\ Done(regs, Call("alarmFired", alarm_num),
            BitAnd(Shr(read_register(regs, DS3232_STATUSREG), alarm_num - 1), 1) # 0, <<>>)
    /\ UNCHANGED <<set, lastSqw>>

enable32K ==
    Rmw("enable32K", None, DS3232_STATUSREG,
        BitOr(read_register(regs, DS3232_STATUSREG), Shl(1, 3)), AllOk)

disable32K ==
    Rmw("disable32K", None, DS3232_STATUSREG,
        BitClear(read_register(regs, DS3232_STATUSREG), Shl(1, 3)), AllOk)

isEnabled32K ==
    /\ Done(regs, Call("isEnabled32K", None),
            BitAnd(Shr(read_register(regs, DS3232_STATUSREG), 3), 1) # 0, <<>>)
    /\ UNCHANGED <<set, lastSqw>>

enableBB32KHZ ==
    Rmw("enableBB32KHZ", None, DS3232_STATUSREG,
        BitOr(read_register(regs, DS3232_STATUSREG), Shl(1, 6)), AllOk)

disableBB32KHZ ==
    Rmw("disableBB32KHZ", None, DS3232_STATUSREG,
        BitClear(read_register(regs, DS3232_STATUSREG), Shl(1, 6)), AllOk)

isEnabledBB32KHZ ==
    /\ Done(regs, Call("isEnabledBB32KHZ", None),
            BitAnd(Shr(read_register(regs, DS3232_STATUSREG), 6), 1) # 0, <<>>)
    /\ UNCHANGED <<set, lastSqw>>

\* clearOSF clearing BB32KHZ (bit 6) instead of OSF (bit 7)
clearOSF_wrongBit ==
    Rmw("clearOSF", None, DS3232_STATUSREG,
        BitClear(read_register(regs, DS3232_STATUSREG), 64), AllOk)

clearOSF ==
    Rmw("clearOSF", None, DS3232_STATUSREG,
        BitClear(read_register(regs, DS3232_STATUSREG), 128), AllOk)

enableEOSC ==
    Rmw("enableEOSC", None, DS3232_CONTROL,
        BitClear(read_register(regs, DS3232_CONTROL), Shl(1, 7)), AllOk)

disableEOSC ==
    Rmw("disableEOSC", None, DS3232_CONTROL,
        BitOr(read_register(regs, DS3232_CONTROL), Shl(1, 7)), AllOk)

isEnabledEOSC ==
    /\ Done(regs, Call("isEnabledEOSC", None),
            BitAnd(Shr(read_register(regs, DS3232_CONTROL), 7), 1) # 0, <<>>)
    /\ UNCHANGED <<set, lastSqw>>

\* the register the NVRAM byte at address lives in (uint8_t arithmetic)
\* nvramAddrByte without the NVRAM base
nvramAddrByte_noBase(address) == address % 256

nvramAddrByte(address) == (DS3232_NVRAM + address) % 256

readnvramBuf(size, address) ==
    /\ Done(regs, Call("readnvram", <<size, address>>),
            i2cRead(regs, nvramAddrByte(address), size), <<>>)
    /\ UNCHANGED <<set, lastSqw>>

writenvramBuf(address, buf, ok) ==
    LET buffer == <<nvramAddrByte(address)>> \o buf
        w == <<Tx(buffer, ok[1])>>
    IN  /\ Done(i2cWrite(regs, buffer, ok[1]), Call("writenvram", <<address, buf>>),
                None, w)
        /\ set' = IF TouchesTime(w) THEN <<>> ELSE set
        /\ UNCHANGED lastSqw

\* the one-byte shortcuts
readnvramByte(address) ==
    /\ Done(regs, Call("readnvramByte", address),
            i2cRead(regs, nvramAddrByte(address), 1)[1], <<>>)
    /\ UNCHANGED <<set, lastSqw>>

writenvramByte(address, data, ok) ==
    LET buffer == <<nvramAddrByte(address), data>>
        w == <<Tx(buffer, ok[1])>>
    IN  /\ Done(i2cWrite(regs, buffer, ok[1]), Call("writenvramByte", <<address, data>>),
                None, w)
        /\ set' = IF TouchesTime(w) THEN <<>> ELSE set
        /\ UNCHANGED lastSqw

(***************************************************************************)
(* Register images and inputs.                                             *)
(***************************************************************************)
\* a register file: zero everywhere but the time registers (a 7-byte image),
\* control, status and the two temperature bytes
Image(time, ctrl, status, temp) ==
    [a \in Addr |->
        IF a < DS3232_ALARM1 THEN time[a + 1]
        ELSE IF a = DS3232_CONTROL THEN ctrl
        ELSE IF a = DS3232_STATUSREG THEN status
        ELSE IF a = DS3232_TEMPERATUREREG THEN temp[1]
        ELSE IF a = DS3232_TEMPERATUREREG + 1 THEN temp[2]
        ELSE 0]

\* 2000-01-01 00:00:00, a Saturday, as the chip holds it
Epoch == <<0, 0, 0, 7, 1, 1, 0>>

\* 25.25 degrees C
Warm == <<25, 64>>

Start(r) ==
    /\ regs = r
    /\ pre = r
    /\ call = Call("begin", None)
    /\ ret = TRUE
    /\ wlog = <<>>
    /\ set = <<>>
    /\ lastSqw = -1

AlarmNums == {1, 2}

\* Ds3232SqwPinMode: 1 Hz, 1.024 kHz, 4.096 kHz, 8.192 kHz, interrupt mode, off
SqwModes == {0, 8, 16, 24, 4, DS3232_OFF}

(***************************************************************************)
(* Spec: every operation of the driver, from the power-on register file    *)
(* (control 0x1C, status 0xC9 with alarm 1 fired), on a transport that     *)
(* accepts every transaction and with NVRAM addresses in range.            *)
(***************************************************************************)
Leap == DateTime(2024, 2, 29, 23, 59, 58)

Init == Start(Image(Epoch, 28, 201, Warm))

Next ==
    \/ lostPower
    \/ adjust(Leap, AllOk)
    \/ now
    \/ readSqwPinMode
    \/ \E mode \in {0, 4, DS3232_OFF} : writeSqwPinMode(mode)
    \/ getTemperature
    \/ setAlarm1(Leap, 16, AllOk)
    \/ setAlarm2(Leap, 4, AllOk)
    \/ \E n \in AlarmNums : disableAlarm(n)
    \/ \E n \in AlarmNums : clearAlarm(n)
    \/ \E n \in AlarmNums : alarmFired(n)
    \/ enable32K
    \/ disable32K
    \/ isEnabled32K
    \/ enableBB32KHZ
    \/ disableBB32KHZ
    \/ isEnabledBB32KHZ
    \/ clearOSF
    \/ enableEOSC
    \/ disableEOSC
    \/ isEnabledEOSC
    \/ readnvramByte(235)
    \/ writenvramByte(235, 165, AllOk)

Spec == Init /\ [][Next]_vars

(***************************************************************************)
(* SpecAlarm: the two alarms and the SQW pin mode that gates them, over    *)
(* every alarm mode of the two enumerations and three times.               *)
(***************************************************************************)
\* 2099-12-31 12:30:09
Last == DateTime(2099, 12, 31, 12, 30, 9)

AlarmTimes == {Leap, Last}

\* Ds3232Alarm1Mode: per second, second, minute, hour, date, day
Alarm1Modes == {15, 14, 12, 8, 0, 16}

\* Ds3232Alarm2Mode: per minute, minute, hour, date, day
Alarm2Modes == {7, 6, 4, 0, 8}

InitAlarm == \E ctrl \in {28, 131} : Start(Image(Epoch, ctrl, 201, Warm))

NextAlarm ==
    \/ \E dt \in AlarmTimes, m \in Alarm1Modes : setAlarm1(dt, m, AllOk)
    \/ \E dt \in AlarmTimes, m \in Alarm2Modes : setAlarm2(dt, m, AllOk)
    \/ \E mode \in {0, DS3232_OFF} : writeSqwPinMode(mode)

SpecAlarm == InitAlarm /\ [][NextAlarm]_vars

(***************************************************************************)
(* SpecSqw: the SQW pin mode, from every value of the control register.    *)
(***************************************************************************)
InitSqw == \E ctrl \in Byte : Start(Image(Epoch, ctrl, 201, Warm))

NextSqw ==
    \/ \E mode \in SqwModes : writeSqwPinMode(mode)
    \/ readSqwPinMode

SpecSqw == InitSqw /\ [][NextSqw]_vars

(***************************************************************************)
(* SpecTime: setting and reading the time, and the oscillator stop flag,   *)
(* from several status registers.                                          *)
(***************************************************************************)
Times ==
    { DateTime(y, mo, d, hh, ms[1], ms[2]) :
        y \in {2000, 2024, 2099}, mo \in {1, 12}, d \in {1, 31},
        hh \in {0, 23}, ms \in {<<0, 59>>, <<59, 10>>} }

StatusStarts == {128, 201, 255, 72}

InitTime == \E status \in StatusStarts : Start(Image(Epoch, 28, status, Warm))

NextTime ==
    \/ \E dt \in Times : adjust(dt, AllOk)
    \/ now
    \/ lostPower
    \/ clearOSF

SpecTime == InitTime /\ [][NextTime]_vars

(***************************************************************************)
(* SpecDecode: now() on a range of time register images, bit 7 set or not. *)
(***************************************************************************)
TimeImages ==
    { <<ss, mm, hh, dow, d, mo, y>> :
        ss \in {0, 89, 217}, mm \in {5, 133, 89}, hh \in {0, 35, 163},
        dow \in {1, 7}, d \in {1, 49, 177}, mo \in {1, 18, 146}, y \in {0, 153} }

InitDecode == \E time \in TimeImages : Start(Image(time, 28, 201, Warm))

NextDecode == now

SpecDecode == InitDecode /\ [][NextDecode]_vars

(***************************************************************************)
(* SpecTemp: getTemperature() on every first temperature byte.             *)
(***************************************************************************)
InitTemp ==
    \E b1 \in Byte, b2 \in {0, 64, 128, 192, 63, 255} :
        Start(Image(Epoch, 28, 201, <<b1, b2>>))

NextTemp == getTemperature

SpecTemp == InitTemp /\ [][NextTemp]_vars

(***************************************************************************)
(* SpecNvram: the NVRAM, with addresses at both ends of the 236 bytes and  *)
(* buffers of up to MaxSize bytes.                                         *)
(***************************************************************************)
MaxSize == 2

NvAddrs == {0, 234, 235}

\* buffers whose bytes all differ: 165, 166, ...
NvBufs == { [i \in 1..s |-> v + i - 1] : s \in 1..MaxSize, v \in {165} }

InitNvram == Start(Image(Epoch, 28, 201, Warm))

NextNvram ==
    \/ \E a \in NvAddrs : writenvramByte(a, 255, AllOk)
    \/ \E a \in NvAddrs : readnvramByte(a)
    \/ \E a \in NvAddrs, buf \in NvBufs : writenvramBuf(a, buf, AllOk)
    \/ \E a \in NvAddrs, s \in 1..MaxSize : readnvramBuf(s, a)

SpecNvram == InitNvram /\ [][NextNvram]_vars

(***************************************************************************)
(* SpecFail: the operations that write, on a transport that may refuse any *)
(* write transaction.                                                      *)
(***************************************************************************)
Outcomes == [1..2 -> BOOLEAN]

InitFail == \E ctrl \in {28, 0} : Start(Image(Epoch, ctrl, 201, Warm))

NextFail ==
    \/ \E ok \in Outcomes : adjust(Leap, ok)
    \/ \E ok \in Outcomes, m \in {8, 16} : setAlarm1(Leap, m, ok)
    \/ \E ok \in Outcomes, m \in {4, 8} : setAlarm2(Leap, m, ok)
    \/ \E ok \in Outcomes : writenvramByte(0, 165, ok)
    \/ \E ok \in Outcomes : writenvramBuf(234, <<90, 91>>, ok)

SpecFail == InitFail /\ [][NextFail]_vars

(***************************************************************************)
(* Properties.                                                             *)
(***************************************************************************)
Control(r) == r[DS3232_CONTROL]

Status(r) == r[DS3232_STATUSREG]

SetAlarms == {"setAlarm1", "setAlarm2"}

\* C1: with control bit 2 clear, setAlarm1 and setAlarm2 return false and
\* write nothing: no write transaction is issued and every register, the
\* alarm, control and status registers among them, is as it was.
C1_GuardedAlarmWritesNothing ==
    (call.op \in SetAlarms /\ Bit(Control(pre), 2) = 0)
        => /\ ret = FALSE
           /\ wlog = <<>>
           /\ \A a \in Addr : regs[a] = pre[a]

C1_Witness ==
    /\ call.op = "setAlarm2"
    /\ call.arg[2] = 8
    /\ Bit(Control(pre), 2) = 0
    /\ Control(pre) = 131
    /\ ret = FALSE

\* C2: now() after adjust(t), the time registers untouched in between,
\* returns t in all six fields, and so with t's day of the week; the
\* day-of-week register holds t's day of the week.
C2_AdjustNowRoundTrip ==
    (call.op = "now" /\ Len(set) = 1)
        => /\ ret = set[1]
           /\ dayOfTheWeek(ret) = dayOfTheWeek(set[1])
           /\ regs[DS3232_TIME + 3] = dayOfTheWeek(set[1])

C2_Witness ==
    /\ call.op = "now"
    /\ Len(set) = 1
    /\ set[1] = DateTime(2099, 12, 31, 23, 59, 10)
    /\ ret.year = 2099 /\ ret.minute = 59

\* what lostPower, clearOSF and adjust leave behind
C3_State ==
    /\ call.op = "lostPower" => ret = (Bit(Status(regs), 7) = 1)
    /\ call.op \in {"clearOSF", "adjust"}
        => /\ Bit(Status(regs), 7) = 0
           /\ \A i \in 0..6 : Bit(Status(regs), i) = Bit(Status(pre), i)
    /\ call.op = "clearOSF"
        => \A a \in DS3232_TIME..(DS3232_ALARM1 - 1) : regs[a] = pre[a]

\* a lostPower() right after clearOSF() or adjust(t)
C3_Step ==
    (call.op \in {"clearOSF", "adjust"} /\ call'.op = "lostPower") => ret' = FALSE

\* C3: lostPower() returns true exactly when status bit 7 is set; clearOSF()
\* and adjust(t) leave bit 7 clear and the other status bits as they were,
\* clearOSF() leaves the time registers as they were, and a lostPower() that
\* follows either of them returns false.
C3_LostPowerFollowsOSF == []C3_State /\ [][C3_Step]_vars

C3_Witness ==
    /\ call.op = "lostPower"
    /\ ret = FALSE
    /\ Status(regs) = 127

\* C4: readSqwPinMode() after writeSqwPinMode(X) returns X, or the "off"
\* member when X has bit 2 set; writeSqwPinMode(X) sets control bits 2-4 to
\* X and leaves bits 0, 1, 5, 6 and 7 as they were.
C4_SqwPinModeRoundTrip ==
    /\ (call.op = "readSqwPinMode" /\ lastSqw # -1)
        => ret = (IF Bit(lastSqw, 2) = 1 THEN DS3232_OFF ELSE lastSqw)
    /\ call.op = "writeSqwPinMode"
        => /\ \A i \in {0, 1, 5, 6, 7} : Bit(Control(regs), i) = Bit(Control(pre), i)
           /\ \A i \in 2..4 : Bit(Control(regs), i) = Bit(call.arg, i)
           /\ \A a \in Addr \ {DS3232_CONTROL} : regs[a] = pre[a]

C4_Witness ==
    /\ call.op = "readSqwPinMode"
    /\ lastSqw = 4
    /\ ret = DS3232_OFF
    /\ Control(regs) = 167

Refused == \E i \in 1..Len(wlog) : ~wlog[i].ok

\* C5 as stated: a refused bus write is reported to the caller by the return
\* value; setAlarm1 and setAlarm2 do not return true when one of their two
\* writes was refused.
C5_FailureReported ==
    (call.op \in SetAlarms /\ Refused) => ret # TRUE

\* C5, amended: nothing is retried and a refused bus write is not reported.
\* setAlarm1 and setAlarm2 return true whenever control bit 2 is set, whether
\* their two writes were accepted or not; adjust and writenvram return
\* nothing; each operation issues each of its write transactions once.
C5_FailureIgnored ==
    /\ (call.op \in SetAlarms /\ Bit(Control(pre), 2) = 1)
        => (ret = TRUE /\ Len(wlog) = 2 /\ wlog[1].buf # wlog[2].buf)
    /\ call.op = "adjust"
        => (ret = None /\ Len(wlog) = 2 /\ wlog[1].buf # wlog[2].buf)
    /\ call.op \in {"writenvram", "writenvramByte"}
        => (ret = None /\ Len(wlog) = 1)

C5_Witness ==
    /\ call.op = "setAlarm1"
    /\ Len(wlog) = 2
    /\ ~wlog[1].ok /\ ~wlog[2].ok
    /\ ret = TRUE
    /\ regs = pre

\* the NVRAM round trip: addresses 0..235, 236 bytes
InRange(address, size) == address >= 0 /\ address + size <= 236

\* what a write within the 236 bytes leaves behind
C6_State ==
    /\ (call.op = "writenvramByte" /\ InRange(call.arg[1], 1))
        => /\ regs[DS3232_NVRAM + call.arg[1]] = call.arg[2]
           /\ \A a \in 0..(DS3232_NVRAM - 1) : regs[a] = pre[a]
    /\ (call.op = "writenvram" /\ InRange(call.arg[1], Len(call.arg[2])))
        => /\ \A i \in 1..Len(call.arg[2]) :
                regs[DS3232_NVRAM + call.arg[1] + i - 1] = call.arg[2][i]
           /\ \A a \in 0..(DS3232_NVRAM - 1) : regs[a] = pre[a]

\* a read right after a write of the same address and size
C6_Step ==
    /\ ( /\ call.op = "writenvramByte"
         /\ call'.op = "readnvramByte"
         /\ call'.arg = call.arg[1]
         /\ InRange(call.arg[1], 1) )
        => ret' = call.arg[2]
    /\ ( /\ call.op = "writenvram"
         /\ call'.op = "readnvram"
         /\ call'.arg = <<Len(call.arg[2]), call.arg[1]>>
         /\ InRange(call.arg[1], Len(call.arg[2])) )
        => ret' = call.arg[2]

\* C6: within the 236 bytes, writenvram stores its bytes at registers
\* 0x14+a .. 0x14+a+s-1 and changes no register below 0x14, and the
\* readnvram of the same address and size that follows returns the bytes
\* written; so for the one-byte forms.
C6_NvramRoundTrip == []C6_State /\ [][C6_Step]_vars

C6_Witness ==
    /\ call.op = "readnvram"
    /\ call.arg = <<2, 234>>
    /\ ret = <<165, 166>>
    /\ regs[255] = 166

\* the day field of an alarm: day of the week (DY/DT = 1) or day of the month
DayField(dt, dydt) == IF dydt = 1 THEN dowToDS3232(dayOfTheWeek(dt)) ELSE dt.day

\* what setAlarm1(dt, m) leaves behind when it goes ahead
C7_Alarm1(dt, m) ==
    LET image == <<bin2bcd(dt.second) + 128 * Bit(m, 0),
                   bin2bcd(dt.minute) + 128 * Bit(m, 1),
                   bin2bcd(dt.hour) + 128 * Bit(m, 2),
                   bin2bcd(DayField(dt, Bit(m, 4))) + 128 * Bit(m, 3) + 64 * Bit(m, 4)>>
    IN  /\ ret = TRUE
        /\ Len(wlog) = 2
        /\ wlog[1].buf = <<DS3232_ALARM1>> \o image
        /\ wlog[2].buf = <<DS3232_CONTROL, Control(regs)>>
        /\ \A i \in 1..4 : regs[DS3232_ALARM1 + i - 1] = image[i]
        /\ Bit(Control(regs), 0) = 1
        /\ \A i \in 1..7 : Bit(Control(regs), i) = Bit(Control(pre), i)
        /\ \A a \in Addr \ ((DS3232_ALARM1..(DS3232_ALARM1 + 3)) \cup {DS3232_CONTROL}) :
                regs[a] = pre[a]

\* what setAlarm2(dt, m) leaves behind when it goes ahead
C7_Alarm2(dt, m) ==
    LET image == <<bin2bcd(dt.minute) + 128 * Bit(m, 0),
                   bin2bcd(dt.hour) + 128 * Bit(m, 1),
                   bin2bcd(DayField(dt, Bit(m, 3))) + 128 * Bit(m, 2) + 64 * Bit(m, 3)>>
    IN  /\ ret = TRUE
        /\ Len(wlog) = 2
        /\ wlog[1].buf = <<DS3232_ALARM2>> \o image
        /\ wlog[2].buf = <<DS3232_CONTROL, Control(regs)>>
        /\ \A i \in 1..3 : regs[DS3232_ALARM2 + i - 1] = image[i]
        /\ Bit(Control(regs), 1) = 1
        /\ \A i \in {0} \cup 2..7 : Bit(Control(regs), i) = Bit(Control(pre), i)
        /\ \A a \in Addr \ ((DS3232_ALARM2..(DS3232_ALARM2 + 2)) \cup {DS3232_CONTROL}) :
                regs[a] = pre[a]

\* C7: with control bit 2 set, setAlarm1(t, mode) returns true, writes in one
\* 5-byte transaction at 0x07 the BCD second, minute, hour and day field
\* with mode bits 0..3 at bit 7 and mode bit 4 at bit 6 of the fourth, the
\* day field being the day of the week when mode bit 4 is set and the day of
\* the month otherwise, then sets control bit 0 and nothing else.
\* setAlarm2(t, mode) does so with a 4-byte transaction at 0x0B, minute, hour
\* and day field, mode bits 0..2 at bit 7, mode bit 3 at bit 6, control bit 1.
C7_AlarmRegisters ==
    /\ (call.op = "setAlarm1" /\ Bit(Control(pre), 2) = 1)
        => C7_Alarm1(call.arg[1], call.arg[2])
    /\ (call.op = "setAlarm2" /\ Bit(Control(pre), 2) = 1)
        => C7_Alarm2(call.arg[1], call.arg[2])

C7_Witness ==
    /\ call.op = "setAlarm1"
    /\ call.arg = <<Leap, 16>>
    /\ ret = TRUE
    /\ regs[DS3232_ALARM1 + 3] = 69
    /\ Bit(Control(pre), 0) = 0

\* C8 as stated: now() masks bit 7 of the seconds byte and of the minutes
\* byte, and decodes the hour, day and month bytes as they are.
C8_MinuteMasked ==
    call.op = "now"
        => /\ ret.second = bcd2bin(regs[0] % 128)
           /\ ret.minute = bcd2bin(regs[1] % 128)
           /\ ret.hour = bcd2bin(regs[2])
           /\ ret.day = bcd2bin(regs[4])
           /\ ret.month = bcd2bin(regs[5])
           /\ ret.year = bcd2bin(regs[6]) + 2000

\* C8, amended: now() masks bit 7 of the seconds byte and of the month byte,
\* and decodes the minutes, hour and day bytes as they are; the year is the
\* decoded year byte plus 2000.
C8_MonthMasked ==
    call.op = "now"
        => /\ ret.second = bcd2bin(regs[0] % 128)
           /\ ret.minute = bcd2bin(regs[1])
           /\ ret.hour = bcd2bin(regs[2])
           /\ ret.day = bcd2bin(regs[4])
           /\ ret.month = bcd2bin(regs[5] % 128)
           /\ ret.year = bcd2bin(regs[6]) + 2000

C8_Witness ==
    /\ call.op = "now"
    /\ regs[1] = 133 /\ ret.minute = 85
    /\ regs[5] = 146 /\ ret.month = 12
    /\ regs[0] = 217 /\ ret.second = 59

\* a byte as a two's-complement signed 8-bit integer
Signed(b) == IF b >= 128 THEN b - 256 ELSE b

\* C9: getTemperature() returns, in quarters of a degree, four times the
\* first temperature byte read as a signed 8-bit integer plus the top two
\* bits of the second byte.
C9_TemperatureSigned ==
    call.op = "getTemperature"
        => ret = 4 * Signed(regs[DS3232_TEMPERATUREREG])
                 + (regs[DS3232_TEMPERATUREREG + 1] \div 64)

\* C10: once writeSqwPinMode has last written a mode with bit 2 clear,
\* setAlarm1 and setAlarm2 return false and write nothing; and no operation
\* but writeSqwPinMode changes control bit 2.
C10_AlarmsGatedBySqwMode ==
    /\ (call.op \in SetAlarms /\ lastSqw # -1 /\ Bit(lastSqw, 2) = 0)
        => (ret = FALSE /\ wlog = <<>> /\ regs = pre)
    /\ call.op # "writeSqwPinMode"
        => Bit(Control(regs), 2) = Bit(Control(pre), 2)

C10_Witness ==
    /\ call.op = "setAlarm1"
    /\ lastSqw = 0
    /\ ret = FALSE
    /\ Bit(Control(regs), 0) = 1
    /\ Bit(Status(regs), 7) = 0

====
